---- MODULE Spec2Model ----
(***************************************************************************)
(* Model of src/ai_tools/ui/model.py: Job, JobQueue, Model (the generation *)
(* coordinator) and ModelRegistry (the message router with its background  *)
(* receive task).                                                          *)
(*                                                                         *)
(* Scheduling is single-threaded cooperative (asyncio): every action below *)
(* is one run of a callback or of a task between two suspension points.    *)
(* Floats are kept in tenths: strength 1.0 is 10, progress 0.5 is 5.       *)
(* CancelledError is a BaseException (Python 3.8 and later), so the        *)
(* "except Exception" clause of _report_errors does not catch it.          *)
(***************************************************************************)
EXTENDS Integers, Sequences, FiniteSets, TLC

(* ------------------------------ bounds -------------------------------- *)

\* Number of documents the host application can open.
NumDocs == 2
\* Number of generate() calls over a run.
MaxJobs == 2

Docs == 1..NumDocs
JobIds == 1..MaxJobs

(* ------------------------- program constants -------------------------- *)

\* class State(Flag)
queued == 0
executing == 1
finished == 2

\* asyncio.sleep(5) in _handle_messages
BackoffDelay == 5

\* Model.strength = 1.0, Model.progress = 0.0, Model.error = "", in tenths
FullStrength == 10
NoProgress == 0
FullProgress == 10
NoError == ""

\* Values the user interface writes to Model.strength (tenths)
Strengths == {5, FullStrength}
\* Values of message.progress in a progress message (tenths)
ProgressValues == {3, 6}
\* Values of message.images in a finished message
ImageLists == {<<1, 2>>}

\* ImageCollection()
NoImages == << >>

(* ----------------------------- exceptions ----------------------------- *)

NetworkError == [type |-> "NetworkError", msg |-> "server unreachable"]
Interrupted == [type |-> "Exception", msg |-> "interrupted"]
ConnectionClosed == [type |-> "Exception", msg |-> "connection closed"]
AssertionError(text) == [type |-> "AssertionError", msg |-> text]
CancelledError == [type |-> "CancelledError", msg |-> ""]

\* The except clauses without the last one, "except Exception".
CaughtNoGeneric(e) == e.type \in {"NetworkError", "AssertionError"}

\* The except clauses where CancelledError is an Exception (Python before 3.8).
CaughtLegacy(e) ==
  e.type \in {"NetworkError", "AssertionError", "Exception", "CancelledError"}

\* The except clauses of _report_errors: which exceptions it handles.
Caught(e) == e.type \in {"NetworkError", "AssertionError", "Exception"}

\* The message _report_errors passes to parent.report_error.
ErrorMessage(e) ==
  CASE e.type = "NetworkError" -> e.msg
    [] e.type = "AssertionError" -> "Error: Internal assertion failed [" \o e.msg \o "]"
    [] OTHER -> "Error: " \o e.msg

(* ------------------------------- state -------------------------------- *)

VARIABLES
  connState,   \* Connection.instance().state
  docs,        \* the host's documents: "unopened", "open", "closed"
  activeDoc,   \* the host's active document, 0 when there is none
  instance,    \* ModelRegistry._instance is not None
  destroyed,   \* ModelRegistry.__del__ has run
  models,      \* every Model object created, by creation index
  _models,     \* ModelRegistry._models: indices into models
  tasks,       \* the submission tasks started by Model.generate, in call order
  recvTasks,   \* the receive tasks created by the registry
  _task,       \* ModelRegistry._task: index into recvTasks, 0 for None
  issued,      \* prompt ids the transport has handed out
  emitted,     \* the signals emitted by the last step, in order
  lastOp       \* the operation the last step performed

vars == <<connState, docs, activeDoc, instance, destroyed, models, _models,
          tasks, recvTasks, _task, issued, emitted, lastOp>>

Signal(sig, m) == [sig |-> sig, model |-> m]
\* op: the operation; model: the Model it ran on (0: none); id: the task or
\* prompt id it concerns; arg: its input or result; exc: the exception raised
\* inside it, caught or not (NoExc when none).
NoExc == [type |-> "None", msg |-> ""]
OpX(op, m, id, arg, exc) == [op |-> op, model |-> m, id |-> id, arg |-> arg, exc |-> exc]
Op(op, m, id, arg) == OpX(op, m, id, arg, NoExc)

(* ---------------------------- Job, JobQueue --------------------------- *)

\* Job.__init__
Job(id) == [id |-> id, state |-> queued, results |-> NoImages]

\* add that inserts the new job at the head of the queue.
add_front(entries, id) == <<Job(id)>> \o entries

\* JobQueue.add
add(entries, id) == Append(entries, Job(id))

\* JobQueue.find: index of the first job with this id, 0 for None
find(entries, id) ==
  IF \E i \in 1..Len(entries) : entries[i].id = id
  THEN CHOOSE i \in 1..Len(entries) :
         /\ entries[i].id = id
         /\ \A k \in 1..(i - 1) : entries[k].id # id
  ELSE 0

\* JobQueue.any_executing
any_executing(entries) == \E i \in 1..Len(entries) : entries[i].state = executing

(* -------------------------------- Model ------------------------------- *)

\* Model.__init__ and the class attributes it inherits
NewModel(d) ==
  [doc |-> d, strength |-> FullStrength, progress |-> NoProgress,
   error |-> NoError, jobs |-> << >>]

\* Model.is_valid, Model.is_active
is_valid(m) == docs[models[m].doc] = "open"
is_active(m) == activeDoc = models[m].doc

\* The outcome of a piece of code: the models after it, the signals it emitted
\* and the exception it raised (NoExc when it returned).
Outcome(ms, em, exc) == [models |-> ms, emitted |-> em, exc |-> exc]
Raise(w, exc) == [w EXCEPT !.exc = exc]
Emit(w, sig, m) == [w EXCEPT !.emitted = Append(@, Signal(sig, m))]

\* report_progress with the wrong signal: "changed" instead of
\* "progress_changed".
report_progress_changed(w, m, value) ==
  Emit([w EXCEPT !.models[m].progress = value], "changed", m)

\* Model.report_progress
report_progress(w, m, value) ==
  Emit([w EXCEPT !.models[m].progress = value], "progress_changed", m)

\* report_error that keeps the first error instead of replacing it.
report_error_keep(w, m, message) ==
  Emit([w EXCEPT !.models[m].error = IF @ = NoError THEN message ELSE @],
       "changed", m)

\* Model.report_error
report_error(w, m, message) ==
  Emit([w EXCEPT !.models[m].error = message], "changed", m)

\* Model.clear_error
clear_error(w, m) ==
  IF w.models[m].error # NoError
  THEN Emit([w EXCEPT !.models[m].error = NoError], "changed", m)
  ELSE w

\* Messages of the transport's stream (ClientMessage)
ProgressMessage(id, value) ==
  [event |-> "progress", prompt_id |-> id, progress |-> value, images |-> NoImages]
FinishedMessage(id, images) ==
  [event |-> "finished", prompt_id |-> id, progress |-> FullProgress, images |-> images]

\* handle_message that accepts a finished message only for an Executing job.
handle_message_strict(w, m, message) ==
  LET j == find(w.models[m].jobs, message.prompt_id) IN
  IF j = 0
  THEN Raise(w, AssertionError("Received \"finished\" message for unknown prompt ID."))
  ELSE IF message.event = "progress"
  THEN report_progress([w EXCEPT !.models[m].jobs[j].state = executing],
                       m, message.progress)
  ELSE IF message.event = "finished" /\ w.models[m].jobs[j].state = executing
  THEN Emit([w EXCEPT !.models[m].jobs[j].state = finished,
                      !.models[m].jobs[j].results = message.images,
                      !.models[m].progress = FullProgress],
            "changed", m)
  ELSE w

\* Model.handle_message
handle_message(w, m, message) ==
  LET j == find(w.models[m].jobs, message.prompt_id) IN
  IF j = 0
  THEN Raise(w, AssertionError("Received \"finished\" message for unknown prompt ID."))
  ELSE IF message.event = "progress"
  THEN report_progress([w EXCEPT !.models[m].jobs[j].state = executing],
                       m, message.progress)
  ELSE IF message.event = "finished"
  THEN Emit([w EXCEPT !.models[m].jobs[j].state = finished,
                      !.models[m].jobs[j].results = message.images,
                      !.models[m].progress = FullProgress],
            "changed", m)
  ELSE w

\* The request selected by Model._generate from the image and mask captured by
\* Model.generate and the strength read when the task runs.
SelectRequest(image, mask, strength) ==
  IF ~image /\ ~mask
  THEN IF strength = FullStrength
       THEN [shape |-> "generate", exc |-> NoExc]
       ELSE [shape |-> "none", exc |-> AssertionError("")]
  ELSE IF ~mask /\ strength < FullStrength
  THEN IF image
       THEN [shape |-> "refine", exc |-> NoExc]
       ELSE [shape |-> "none", exc |-> AssertionError("")]
  ELSE IF strength = FullStrength
  THEN [shape |-> "none", exc |-> AssertionError("Not implemented")]
  ELSE IF image /\ mask /\ strength < FullStrength
       THEN [shape |-> "refine_region", exc |-> NoExc]
       ELSE [shape |-> "none", exc |-> AssertionError("")]

\* _generate that resets the progress without asking jobs.any_executing().
GenerateBodyAlwaysResets(w, m, image, mask) ==
  IF connState # "connected"
  THEN Raise(w, AssertionError(""))
  ELSE Raise(Emit([w EXCEPT !.models[m].progress = NoProgress], "changed", m),
             SelectRequest(image, mask, w.models[m].strength).exc)

\* Model._generate up to its await: the connection assertion, the progress
\* reset and the selection of the request.
GenerateBody(w, m, image, mask) ==
  IF connState # "connected"
  THEN Raise(w, AssertionError(""))
  ELSE LET w1 == IF ~any_executing(w.models[m].jobs)
                 THEN Emit([w EXCEPT !.models[m].progress = NoProgress], "changed", m)
                 ELSE w
       IN Raise(w1, SelectRequest(image, mask, w.models[m].strength).exc)

\* Model._generate after its await: jobs.add and changed.emit
GenerateResume(w, m, prompt_id) ==
  Emit([w EXCEPT !.models[m].jobs = add(@, prompt_id)], "changed", m)

(* ---------------------------- ModelRegistry --------------------------- *)

\* ModelRegistry.report_error
RECURSIVE registry_report_error(_, _, _)
registry_report_error(w, ms, message) ==
  IF ms = << >> THEN w
  ELSE registry_report_error(report_error(w, Head(ms), message), Tail(ms), message)

\* _find_model that tests the queue instead of the lookup: the first
\* registered model with a non-empty queue.
_find_model_any(ms, prompt_id) ==
  IF \E i \in 1..Len(_models) : Len(ms[_models[i]].jobs) > 0
  THEN _models[CHOOSE i \in 1..Len(_models) :
         /\ Len(ms[_models[i]].jobs) > 0
         /\ \A k \in 1..(i - 1) : Len(ms[_models[k]].jobs) = 0]
  ELSE 0

\* ModelRegistry._find_model: the first registered model holding the id, 0 for None
_find_model(ms, prompt_id) ==
  IF \E i \in 1..Len(_models) : find(ms[_models[i]].jobs, prompt_id) # 0
  THEN _models[CHOOSE i \in 1..Len(_models) :
         /\ find(ms[_models[i]].jobs, prompt_id) # 0
         /\ \A k \in 1..(i - 1) : find(ms[_models[k]].jobs, prompt_id) = 0]
  ELSE 0

\* _report_errors: parent is a model index, or 0 for the registry
_report_errors(parent, w) ==
  IF w.exc = NoExc \/ ~Caught(w.exc) THEN w
  ELSE LET w0 == Raise(w, NoExc) IN
       IF parent = 0
       THEN registry_report_error(w0, _models, ErrorMessage(w.exc))
       ELSE report_error(w0, parent, ErrorMessage(w.exc))

(* ------------------------------- Init --------------------------------- *)

Init ==
  /\ connState = "disconnected"
  /\ docs = [d \in Docs |-> "unopened"]
  /\ activeDoc = 0
  /\ instance = FALSE
  /\ destroyed = FALSE
  /\ models = << >>
  /\ _models = << >>
  /\ tasks = << >>
  /\ recvTasks = << >>
  /\ _task = 0
  /\ issued = {}
  /\ emitted = << >>
  /\ lastOp = Op("init", 0, 0, 0)

Here == Outcome(models, << >>, NoExc)

(* ------------------- the host: documents, user input ------------------ *)

\* The user opens a document; it becomes the active one.
OpenDocument(d) ==
  /\ ~destroyed
  /\ docs[d] = "unopened"
  /\ docs' = [docs EXCEPT ![d] = "open"]
  /\ activeDoc' = d
  /\ emitted' = << >>
  /\ lastOp' = Op("open_document", 0, d, 0)
  /\ UNCHANGED <<connState, instance, destroyed, models, _models, tasks,
                 recvTasks, _task, issued>>

\* The user closes a document; no document is active until one is activated.
CloseDocument(d) ==
  /\ ~destroyed
  /\ docs[d] = "open"
  /\ docs' = [docs EXCEPT ![d] = "closed"]
  /\ activeDoc' = IF activeDoc = d THEN 0 ELSE activeDoc
  /\ emitted' = << >>
  /\ lastOp' = Op("close_document", 0, d, 0)
  /\ UNCHANGED <<connState, instance, destroyed, models, _models, tasks,
                 recvTasks, _task, issued>>

\* The user switches to another open document.
ActivateDocument(d) ==
  /\ ~destroyed
  /\ docs[d] = "open"
  /\ activeDoc # d
  /\ activeDoc' = d
  /\ emitted' = << >>
  /\ lastOp' = Op("activate_document", 0, d, 0)
  /\ UNCHANGED <<connState, docs, instance, destroyed, models, _models, tasks,
                 recvTasks, _task, issued>>

\* The user interface writes Model.strength.
SetStrength(m, s) ==
  /\ ~destroyed
  /\ m \in 1..Len(models)
  /\ is_valid(m)
  /\ models[m].strength # s
  /\ models' = [models EXCEPT ![m].strength = s]
  /\ emitted' = << >>
  /\ lastOp' = Op("set_strength", m, 0, s)
  /\ UNCHANGED <<connState, docs, activeDoc, instance, destroyed, _models, tasks,
                 recvTasks, _task, issued>>

(* ------------------------ Model.active, registry ---------------------- *)

\* model_for_active_document without the removal of closed documents' models.
PrunedKeepAll == _models

\* ModelRegistry.model_for_active_document on the models list ms
Pruned == SelectSeq(_models, is_valid)
ActiveModel(ms) ==
  IF \E i \in 1..Len(ms) : is_active(ms[i])
  THEN ms[CHOOSE i \in 1..Len(ms) :
            is_active(ms[i]) /\ \A k \in 1..(i - 1) : ~is_active(ms[k])]
  ELSE 0

\* Model.active(): ModelRegistry.instance().model_for_active_document()
Active ==
  /\ ~destroyed
  /\ instance' = TRUE
  /\ IF activeDoc # 0 /\ ActiveModel(Pruned) = 0
     THEN /\ models' = Append(models, NewModel(activeDoc))
          /\ _models' = Append(Pruned, Len(models) + 1)
          /\ emitted' = <<Signal("created", Len(models) + 1)>>
          /\ lastOp' = Op("active", Len(models) + 1, 0, "created")
     ELSE /\ models' = models
          /\ _models' = Pruned
          /\ emitted' = << >>
          /\ lastOp' = Op("active", IF activeDoc # 0 THEN ActiveModel(Pruned) ELSE 0,
                          0, "found")
  /\ UNCHANGED <<connState, docs, activeDoc, destroyed, tasks, recvTasks, _task,
                 issued>>

\* A new receive task: created, not yet run
NewRecvTask == [pc |-> "created", timer |-> 0, cancel |-> FALSE]

\* handle_messages without the test "self._task is None".
StartsTaskUnguarded(s) == s = "connected"

\* handle_messages that tests for the wrong connection state.
StartsTaskOnDisconnect(s) == _task = 0 /\ s = "disconnected"

\* The closure handle_messages of ModelRegistry.__init__, run with the
\* connection in state s: whether it creates a receive task.
StartsTask(s) == _task = 0 /\ s = "connected"

\* Connection.changed is emitted with the connection in state s; the closure
\* handle_messages runs if a registry exists to have connected it.
ConnectionChanged(s) ==
  /\ ~destroyed
  /\ connState' = s
  /\ IF instance /\ StartsTask(s)
     THEN /\ recvTasks' = Append(recvTasks, NewRecvTask)
          /\ _task' = Len(recvTasks) + 1
          /\ lastOp' = Op("connection_changed", 0, 0, "started")
     ELSE /\ UNCHANGED <<recvTasks, _task>>
          /\ lastOp' = Op("connection_changed", 0, 0, "none")
  /\ emitted' = << >>
  /\ UNCHANGED <<docs, activeDoc, instance, destroyed, models, _models, tasks,
                 issued>>

\* ModelRegistry.__del__: cancels the task the registry holds.
Destroy ==
  /\ instance
  /\ ~destroyed
  /\ destroyed' = TRUE
  /\ recvTasks' = IF _task # 0
                  THEN [recvTasks EXCEPT ![_task].cancel = TRUE]
                  ELSE recvTasks
  /\ emitted' = << >>
  /\ lastOp' = Op("__del__", 0, _task, 0)
  /\ UNCHANGED <<connState, docs, activeDoc, instance, models, _models, tasks,
                 _task, issued>>

(* --------------------- Model.generate and its task -------------------- *)

\* Model.generate: the image and mask it captures for the task. mask says
\* whether the document has a selection.
Capture(strength, mask) ==
  [image |-> (mask \/ strength < FullStrength), mask |-> mask]

\* A submission task. called is the strength at the generate() call, kept for
\* the record only: the code never reads it.
NewTask(m, mask) ==
  [model |-> m, image |-> Capture(models[m].strength, mask).image,
   mask |-> Capture(models[m].strength, mask).mask,
   pc |-> "scheduled", shape |-> "none", id |-> 0, called |-> models[m].strength]

\* Where a task that ran under _report_errors stands: raised is the exception
\* its body raised, left the one _report_errors let through.
Settled(raised, left, suspended) ==
  IF raised = NoExc THEN suspended
  ELSE IF left = NoExc THEN "failed"
  ELSE "escaped"

\* Model.generate on a registered model of an open document
Generate(m, mask) ==
  /\ ~destroyed
  /\ \E i \in 1..Len(_models) : _models[i] = m
  /\ is_valid(m)
  /\ Len(tasks) < MaxJobs
  /\ LET w == clear_error(Here, m) IN
       /\ models' = w.models
       /\ emitted' = w.emitted
  /\ tasks' = Append(tasks, NewTask(m, mask))
  /\ lastOp' = Op("generate", m, Len(tasks) + 1, mask)
  /\ UNCHANGED <<connState, docs, activeDoc, instance, destroyed, _models,
                 recvTasks, _task, issued>>

\* The task's first run: Model._generate up to "await job"
StartGenerate(t) ==
  /\ ~destroyed
  /\ t \in 1..Len(tasks)
  /\ tasks[t].pc = "scheduled"
  /\ LET m == tasks[t].model
         body == GenerateBody(Here, m, tasks[t].image, tasks[t].mask)
         w == _report_errors(m, body)
         shape == IF body.exc = NoExc
                  THEN SelectRequest(tasks[t].image, tasks[t].mask,
                                     models[m].strength).shape
                  ELSE "none"
     IN /\ models' = w.models
        /\ emitted' = w.emitted
        /\ tasks' = [tasks EXCEPT ![t].pc = Settled(body.exc, w.exc, "awaiting"),
                                  ![t].shape = shape]
        /\ lastOp' = OpX("_generate", m, t, shape, body.exc)
  /\ UNCHANGED <<connState, docs, activeDoc, instance, destroyed, _models,
                 recvTasks, _task, issued>>

\* The id the transport assigns to the next accepted request
FreshId == CHOOSE id \in JobIds \ issued : \A other \in JobIds \ issued : id <= other

\* The transport accepts the request and assigns its prompt id; the task is
\* resumed later.
TransportAck(t) ==
  /\ ~destroyed
  /\ t \in 1..Len(tasks)
  /\ tasks[t].pc = "awaiting"
  /\ JobIds \ issued # {}
  /\ issued' = issued \cup {FreshId}
  /\ tasks' = [tasks EXCEPT ![t].pc = "acked", ![t].id = FreshId]
  /\ emitted' = << >>
  /\ lastOp' = Op("transport_ack", tasks[t].model, t, FreshId)
  /\ UNCHANGED <<connState, docs, activeDoc, instance, destroyed, models, _models,
                 recvTasks, _task>>

\* Exceptions the awaited submission can raise
SubmitErrors == {NetworkError, Interrupted}

\* "await job" raises
TransportRaise(t, exc) ==
  /\ ~destroyed
  /\ t \in 1..Len(tasks)
  /\ tasks[t].pc = "awaiting"
  /\ LET m == tasks[t].model
         w == _report_errors(m, Raise(Here, exc))
     IN /\ models' = w.models
        /\ emitted' = w.emitted
        /\ tasks' = [tasks EXCEPT ![t].pc = Settled(exc, w.exc, "awaiting")]
        /\ lastOp' = OpX("_generate", m, t, tasks[t].shape, exc)
  /\ UNCHANGED <<connState, docs, activeDoc, instance, destroyed, _models,
                 recvTasks, _task, issued>>

\* "await job" returns the prompt id: jobs.add, changed.emit
ResumeGenerate(t) ==
  /\ ~destroyed
  /\ t \in 1..Len(tasks)
  /\ tasks[t].pc = "acked"
  /\ LET m == tasks[t].model
         w == _report_errors(m, GenerateResume(Here, m, tasks[t].id))
     IN /\ models' = w.models
        /\ emitted' = w.emitted
        /\ tasks' = [tasks EXCEPT ![t].pc = "done"]
        /\ lastOp' = Op("jobs_add", m, t, tasks[t].id)
  /\ UNCHANGED <<connState, docs, activeDoc, instance, destroyed, _models,
                 recvTasks, _task, issued>>

(* --------------------------- the receive task ------------------------- *)

\* ModelRegistry._handle_messages_impl up to the first draw from the stream
ListenBody(w) ==
  IF connState # "connected" THEN Raise(w, AssertionError("")) ELSE w

\* The loop body without the test "model is not None": the call on None
\* raises an AttributeError.
MessageBodyUnchecked(w, msg) ==
  LET m == _find_model(w.models, msg.prompt_id) IN
  IF m # 0 THEN handle_message(w, m, msg)
  ELSE Raise(w, [type |-> "Exception",
                 msg |-> "'NoneType' object has no attribute 'handle_message'"])

\* The body of "async for msg in client.listen()" for one message
MessageBody(w, msg) ==
  LET m == _find_model(w.models, msg.prompt_id) IN
  IF m # 0 THEN handle_message(w, m, msg) ELSE w

\* ModelRegistry._handle_messages after "await _report_errors(...)" is over:
\* left is the exception _report_errors let through. The loop goes on to
\* asyncio.sleep(5) unless an exception reaches the outer try.
AfterInner(task, left) ==
  IF left = NoExc
  THEN [task EXCEPT !.pc = "sleeping", !.timer = BackoffDelay]
  ELSE IF left = CancelledError
  THEN [task EXCEPT !.pc = "done"]
  ELSE [task EXCEPT !.pc = "escaped"]

\* One iteration of "while True" begins: at the task's first run, or when the
\* sleep is over.
RecvAttempt(r) ==
  /\ ~destroyed
  /\ r \in 1..Len(recvTasks)
  /\ ~recvTasks[r].cancel
  /\ \/ recvTasks[r].pc = "created"
     \/ recvTasks[r].pc = "sleeping" /\ recvTasks[r].timer = 0
  /\ LET body == ListenBody(Here)
         w == _report_errors(0, body)
     IN /\ models' = w.models
        /\ emitted' = w.emitted
        /\ recvTasks' = [recvTasks EXCEPT ![r] =
               IF body.exc = NoExc THEN [@ EXCEPT !.pc = "listening"]
               ELSE AfterInner(@, w.exc)]
        /\ lastOp' = OpX("attempt", 0, r, 0, body.exc)
  /\ UNCHANGED <<connState, docs, activeDoc, instance, destroyed, _models, tasks,
                 _task, issued>>

\* Messages the stream can yield: about prompts the transport has accepted
Messages ==
  {ProgressMessage(id, v) : id \in issued, v \in ProgressValues}
    \cup {FinishedMessage(id, imgs) : id \in issued, imgs \in ImageLists}

\* The stream yields a message.
RecvMessage(r, msg) ==
  /\ ~destroyed
  /\ r \in 1..Len(recvTasks)
  /\ ~recvTasks[r].cancel
  /\ recvTasks[r].pc = "listening"
  /\ LET body == MessageBody(Here, msg)
         w == _report_errors(0, body)
     IN /\ models' = w.models
        /\ emitted' = w.emitted
        /\ recvTasks' = [recvTasks EXCEPT ![r] =
               IF body.exc = NoExc THEN @ ELSE AfterInner(@, w.exc)]
        /\ lastOp' = OpX("message", _find_model(models, msg.prompt_id), r, msg,
                         body.exc)
  /\ UNCHANGED <<connState, docs, activeDoc, instance, destroyed, _models, tasks,
                 _task, issued>>

\* Exceptions the stream can raise
StreamErrors == {NetworkError, ConnectionClosed}

\* The stream raises.
RecvRaise(r, exc) ==
  /\ ~destroyed
  /\ r \in 1..Len(recvTasks)
  /\ ~recvTasks[r].cancel
  /\ recvTasks[r].pc = "listening"
  /\ LET w == _report_errors(0, Raise(Here, exc))
     IN /\ models' = w.models
        /\ emitted' = w.emitted
        /\ recvTasks' = [recvTasks EXCEPT ![r] = AfterInner(@, w.exc)]
        /\ lastOp' = OpX("stream_raised", 0, r, 0, exc)
  /\ UNCHANGED <<connState, docs, activeDoc, instance, destroyed, _models, tasks,
                 _task, issued>>

\* The stream ends: "async for" is over and _handle_messages_impl returns.
RecvEnd(r) ==
  /\ ~destroyed
  /\ r \in 1..Len(recvTasks)
  /\ ~recvTasks[r].cancel
  /\ recvTasks[r].pc = "listening"
  /\ LET w == _report_errors(0, Here)
     IN /\ models' = w.models
        /\ emitted' = w.emitted
        /\ recvTasks' = [recvTasks EXCEPT ![r] = AfterInner(@, w.exc)]
        /\ lastOp' = Op("stream_ended", 0, r, 0)
  /\ UNCHANGED <<connState, docs, activeDoc, instance, destroyed, _models, tasks,
                 _task, issued>>

\* One unit of time passes for the sleeping tasks.
Tick ==
  /\ \E r \in 1..Len(recvTasks) :
       recvTasks[r].pc = "sleeping" /\ recvTasks[r].timer > 0
  /\ recvTasks' = [r \in 1..Len(recvTasks) |->
       IF recvTasks[r].pc = "sleeping" /\ recvTasks[r].timer > 0
       THEN [recvTasks[r] EXCEPT !.timer = @ - 1]
       ELSE recvTasks[r]]
  /\ emitted' = << >>
  /\ lastOp' = Op("tick", 0, 0, 0)
  /\ UNCHANGED <<connState, docs, activeDoc, instance, destroyed, models, _models,
                 tasks, _task, issued>>

\* The cancellation requested by Task.cancel() is delivered: CancelledError is
\* thrown at the await the task is suspended on (inside _report_errors when
\* it is the draw from the stream); a task that never ran just ends.
RecvCancelled(r) ==
  /\ r \in 1..Len(recvTasks)
  /\ recvTasks[r].cancel
  /\ recvTasks[r].pc \in {"created", "listening", "sleeping"}
  /\ LET w == IF recvTasks[r].pc = "listening"
              THEN _report_errors(0, Raise(Here, CancelledError))
              ELSE Raise(Here, CancelledError)
     IN /\ models' = w.models
        /\ emitted' = w.emitted
        /\ recvTasks' = [recvTasks EXCEPT ![r] =
               [AfterInner(@, w.exc) EXCEPT !.cancel = FALSE]]
        /\ lastOp' = OpX("cancelled", 0, r, recvTasks[r].pc, CancelledError)
  /\ UNCHANGED <<connState, docs, activeDoc, instance, destroyed, _models, tasks,
                 _task, issued>>

(* ---------------------------- specification --------------------------- *)

Next ==
  \/ \E d \in Docs : OpenDocument(d)
  \/ \E d \in Docs : CloseDocument(d)
  \/ \E d \in Docs : ActivateDocument(d)
  \/ \E m \in 1..Len(models), s \in Strengths : SetStrength(m, s)
  \/ Active
  \/ \E s \in {"disconnected", "connected"} : ConnectionChanged(s)
  \/ Destroy
  \/ \E m \in 1..Len(models), mask \in BOOLEAN : Generate(m, mask)
  \/ \E t \in 1..Len(tasks) : StartGenerate(t)
  \/ \E t \in 1..Len(tasks) : TransportAck(t)
  \/ \E t \in 1..Len(tasks), exc \in SubmitErrors : TransportRaise(t, exc)
  \/ \E t \in 1..Len(tasks) : ResumeGenerate(t)
  \/ \E r \in 1..Len(recvTasks) : RecvAttempt(r)
  \/ \E r \in 1..Len(recvTasks), msg \in Messages : RecvMessage(r, msg)
  \/ \E r \in 1..Len(recvTasks), exc \in StreamErrors : RecvRaise(r, exc)
  \/ \E r \in 1..Len(recvTasks) : RecvEnd(r)
  \/ Tick
  \/ \E r \in 1..Len(recvTasks) : RecvCancelled(r)

Spec == Init /\ [][Next]_vars

(* ------------------- specifications of parts of the system ------------ *)

\* The registry and its receive task, from construction: documents come and
\* go, the connection changes, the stream fails or ends, time passes, the
\* registry is destroyed. No generation is requested.
NextRegistry ==
  \/ \E d \in Docs : OpenDocument(d)
  \/ \E d \in Docs : CloseDocument(d)
  \/ \E d \in Docs : ActivateDocument(d)
  \/ Active
  \/ \E s \in {"disconnected", "connected"} : ConnectionChanged(s)
  \/ Destroy
  \/ \E r \in 1..Len(recvTasks) : RecvAttempt(r)
  \/ \E r \in 1..Len(recvTasks), exc \in StreamErrors : RecvRaise(r, exc)
  \/ \E r \in 1..Len(recvTasks) : RecvEnd(r)
  \/ Tick
  \/ \E r \in 1..Len(recvTasks) : RecvCancelled(r)

SpecRegistry == Init /\ [][NextRegistry]_vars

\* The state Spec reaches by OpenDocument(1), Active, ..., OpenDocument(n),
\* Active, ConnectionChanged("connected"), RecvAttempt(1): the first n
\* documents are open, each has its coordinator, and the receive task is
\* suspended on the stream.
Serving(n) ==
  /\ connState = "connected"
  /\ docs = [d \in Docs |-> IF d <= n THEN "open" ELSE "unopened"]
  /\ activeDoc = n
  /\ instance = TRUE
  /\ destroyed = FALSE
  /\ models = [d \in 1..n |-> NewModel(d)]
  /\ _models = [d \in 1..n |-> d]
  /\ tasks = << >>
  /\ recvTasks = <<[NewRecvTask EXCEPT !.pc = "listening"]>>
  /\ _task = 1
  /\ issued = {}
  /\ emitted = << >>
  /\ lastOp = Op("attempt", 0, 1, 0)

\* Two coordinators serving: generations are requested and acknowledged, and
\* the stream delivers messages about them.
InitMessages == Serving(2)

NextMessages ==
  \/ \E m \in 1..Len(models), mask \in BOOLEAN : Generate(m, mask)
  \/ \E t \in 1..Len(tasks) : StartGenerate(t)
  \/ \E t \in 1..Len(tasks) : TransportAck(t)
  \/ \E t \in 1..Len(tasks) : ResumeGenerate(t)
  \/ \E r \in 1..Len(recvTasks), msg \in Messages : RecvMessage(r, msg)

SpecMessages == InitMessages /\ [][NextMessages]_vars

\* One coordinator serving: the user changes the strength, the connection
\* changes, submissions are acknowledged or fail. The stream stays silent.
InitGenerate == Serving(1)

NextGenerate ==
  \/ \E m \in 1..Len(models), s \in Strengths : SetStrength(m, s)
  \/ \E s \in {"disconnected", "connected"} : ConnectionChanged(s)
  \/ \E m \in 1..Len(models), mask \in BOOLEAN : Generate(m, mask)
  \/ \E t \in 1..Len(tasks) : StartGenerate(t)
  \/ \E t \in 1..Len(tasks) : TransportAck(t)
  \/ \E t \in 1..Len(tasks), exc \in SubmitErrors : TransportRaise(t, exc)
  \/ \E t \in 1..Len(tasks) : ResumeGenerate(t)

SpecGenerate == InitGenerate /\ [][NextGenerate]_vars

(* ------------------------------- claims ------------------------------- *)

Registered(m) == \E i \in 1..Len(_models) : _models[i] = m
Emitted(sig, m) == \E i \in 1..Len(emitted) : emitted[i] = Signal(sig, m)

\* The step delivers a message to the receive loop: Delivered is the message.
Delivers == lastOp'.op = "message"
Delivered == lastOp'.arg

\* Every job other than job j of model m is as it was, and no queue has
\* gained or lost a job.
OtherJobsUnchanged(m, j) ==
  \A m2 \in 1..Len(models) :
    /\ Len(models'[m2].jobs) = Len(models[m2].jobs)
    /\ \A j2 \in 1..Len(models[m2].jobs) :
         (m2 # m \/ j2 # j) => models'[m2].jobs[j2] = models[m2].jobs[j2]

\* C1: a Job's state only moves forward along Queued -> Executing -> Finished
\* under the messages handle_message applies: no step lowers the state of a
\* job, and a Finished job stays Finished.
C1_StateOnlyMovesForward ==
  [][\A m \in 1..Len(models) : \A j \in 1..Len(models[m].jobs) :
       models'[m].jobs[j].state >= models[m].jobs[j].state]_vars

\* C6: in every state, a Job's results are non-empty exactly when its state
\* is Finished.
C6_ResultsIffFinished ==
  \A m \in 1..Len(models) : \A j \in 1..Len(models[m].jobs) :
    (models[m].jobs[j].results # NoImages) <=> (models[m].jobs[j].state = finished)

\* C2: when the receive loop processes a message carrying the id of a job
\* held by coordinator b, every other registered coordinator a that holds a
\* job (none of them with that id) is left as it was: its queue, its jobs,
\* its progress and its error; and no signal is emitted for it.
C2_MessageForBLeavesA ==
  [][Delivers =>
       \A a \in 1..Len(models) : \A b \in 1..Len(models) :
         ( /\ a # b /\ Registered(a) /\ Registered(b)
           /\ find(models[b].jobs, Delivered.prompt_id) # 0
           /\ Len(models[a].jobs) > 0
           /\ find(models[a].jobs, Delivered.prompt_id) = 0 )
         => /\ models'[a] = models[a]
            /\ \A i \in 1..Len(emitted') : emitted'[i].model # a]_vars

\* C2's case: a message for a job of coordinator b has just been applied to
\* b while another registered coordinator holds a job of its own.
C2_Witness ==
  /\ lastOp.op = "message"
  /\ \E a \in 1..Len(models) : \E b \in 1..Len(models) :
       /\ a # b /\ Registered(a) /\ Registered(b)
       /\ Len(models[a].jobs) > 0
       /\ find(models[a].jobs, lastOp.arg.prompt_id) = 0
       /\ find(models[b].jobs, lastOp.arg.prompt_id) # 0
       /\ models[b].jobs[find(models[b].jobs, lastOp.arg.prompt_id)].state # queued

\* C9: when a finished message for job X with images I is delivered and a
\* registered coordinator holds X, then after the step X is Finished with
\* results I, whatever its state was, the coordinator's progress is 1,
\* "changed" is emitted for it, and every other job is as it was.
C9_FinishedMessage ==
  [][(Delivers /\ Delivered.event = "finished") =>
       \A m \in 1..Len(models) :
         (Registered(m) /\ find(models[m].jobs, Delivered.prompt_id) # 0)
         => LET j == find(models[m].jobs, Delivered.prompt_id) IN
            /\ models'[m].jobs[j].state = finished
            /\ models'[m].jobs[j].results = Delivered.images
            /\ models'[m].jobs[j].id = Delivered.prompt_id
            /\ models'[m].progress = FullProgress
            /\ Emitted("changed", m)'
            /\ OtherJobsUnchanged(m, j)]_vars

\* C9's case: a finished message has just been applied to a job that now is
\* Finished with the message's images, next to a job it did not touch.
C9_Witness ==
  /\ lastOp.op = "message"
  /\ lastOp.arg.event = "finished"
  /\ \E m \in 1..Len(models) :
       /\ Registered(m)
       /\ find(models[m].jobs, lastOp.arg.prompt_id) # 0
       /\ models[m].jobs[find(models[m].jobs, lastOp.arg.prompt_id)].results
            = lastOp.arg.images
       /\ models[m].progress = FullProgress
       /\ Len(models[m].jobs) > 1

\* C10: when a progress message with value v for job X is delivered and a
\* registered coordinator holds X, then after the step the coordinator's
\* progress is v, X is Executing, "progress_changed" is emitted for the
\* coordinator, and X's results and every other job are as they were.
C10_ProgressMessage ==
  [][(Delivers /\ Delivered.event = "progress") =>
       \A m \in 1..Len(models) :
         (Registered(m) /\ find(models[m].jobs, Delivered.prompt_id) # 0)
         => LET j == find(models[m].jobs, Delivered.prompt_id) IN
            /\ models'[m].progress = Delivered.progress
            /\ models'[m].jobs[j].state = executing
            /\ models'[m].jobs[j].results = models[m].jobs[j].results
            /\ models'[m].jobs[j].id = Delivered.prompt_id
            /\ Emitted("progress_changed", m)'
            /\ OtherJobsUnchanged(m, j)]_vars

\* C10's case: a progress message has just been applied: its job is
\* Executing and the coordinator's progress is the message's value.
C10_Witness ==
  /\ lastOp.op = "message"
  /\ lastOp.arg.event = "progress"
  /\ \E m \in 1..Len(models) :
       /\ Registered(m)
       /\ find(models[m].jobs, lastOp.arg.prompt_id) # 0
       /\ models[m].jobs[find(models[m].jobs, lastOp.arg.prompt_id)].state = executing
       /\ models[m].progress = lastOp.arg.progress
       /\ Len(models[m].jobs) > 1

\* The receive tasks that have not terminated
LiveRecvTasks ==
  {r \in 1..Len(recvTasks) : recvTasks[r].pc \notin {"done", "escaped"}}

\* C3: at most one receive task exists in every reachable state, and a
\* connection-changed event that finds the connection connected while a
\* receive task exists creates no task.
C3_OneReceiveTask ==
  /\ [](Cardinality(LiveRecvTasks) <= 1)
  /\ [][(lastOp'.op = "connection_changed" /\ connState' = "connected"
          /\ LiveRecvTasks # {})
        => recvTasks' = recvTasks]_vars

\* C3's case: the connection has just signalled "connected" while the one
\* receive task was alive, and there still is one task.
C3_Witness ==
  /\ lastOp.op = "connection_changed"
  /\ lastOp.arg = "none"
  /\ connState = "connected"
  /\ Len(recvTasks) = 1
  /\ LiveRecvTasks = {1}

\* The step ends the inner consumption loop of receive task r without a
\* cancellation: the task ran and is not suspended on the stream after it.
InnerEnds(r) ==
  /\ lastOp'.op \in {"attempt", "message", "stream_raised", "stream_ended"}
  /\ lastOp'.id = r
  /\ recvTasks'[r].pc # "listening"

\* After the step task r sleeps for the whole backoff.
BacksOff(r) ==
  /\ recvTasks'[r].pc = "sleeping"
  /\ recvTasks'[r].timer = BackoffDelay

\* A sleeping task r starts its next attempt when its 5 time units are over
\* and not before: the timer only counts down by one, and the attempt is
\* made at 0.
ResumesAfterBackoff(r) ==
  recvTasks[r].pc = "sleeping" =>
    IF lastOp'.op = "attempt" /\ lastOp'.id = r
    THEN recvTasks[r].timer = 0
    ELSE \/ recvTasks'[r].pc = "sleeping"
            /\ recvTasks'[r].timer \in {recvTasks[r].timer, recvTasks[r].timer - 1}
         \/ recvTasks[r].cancel

\* Task r terminates in the step only if its cancellation was requested, and
\* then it ends cleanly.
EndsOnlyCancelled(r) ==
  (recvTasks[r].pc \notin {"done", "escaped"}
     /\ recvTasks'[r].pc \in {"done", "escaped"})
  => recvTasks[r].cancel /\ recvTasks'[r].pc = "done"

\* C4 as claimed: whenever the inner consumption loop ends without a
\* cancellation, the stream's end included, an error is reported to every
\* coordinator of the registry, the task backs off for 5 time units and then
\* starts a new attempt, and it terminates only when cancelled.
C4_ErrorOnEveryEnd ==
  [][\A r \in 1..Len(recvTasks) :
       /\ InnerEnds(r) =>
            /\ \A m \in 1..Len(models) : Registered(m) =>
                 models'[m].error # NoError /\ Emitted("changed", m)'
            /\ BacksOff(r)
       /\ ResumesAfterBackoff(r)
       /\ EndsOnlyCancelled(r)]_vars

\* C4, amended: whenever the inner consumption loop ends by raising (a network
\* error, another exception, a failed assertion), the error's message is
\* reported to every coordinator of the registry; when the stream just ends,
\* nothing is reported. In both cases the task backs off for 5 time units and
\* then starts a new attempt (one is possible as soon as the backoff is over),
\* and it terminates only when cancelled.
C4_ErrorOnRaise ==
  /\ [][\A r \in 1..Len(recvTasks) :
          /\ InnerEnds(r) =>
               /\ IF lastOp'.exc # NoExc
                  THEN \A m \in 1..Len(models) : Registered(m) =>
                         /\ models'[m].error = ErrorMessage(lastOp'.exc)
                         /\ Emitted("changed", m)'
                  ELSE models' = models /\ emitted' = << >>
               /\ BacksOff(r)
          /\ ResumesAfterBackoff(r)
          /\ EndsOnlyCancelled(r)]_vars
  /\ [](\A r \in 1..Len(recvTasks) :
          (recvTasks[r].pc = "sleeping" /\ recvTasks[r].timer = 0
             /\ ~recvTasks[r].cancel /\ ~destroyed)
          => ENABLED RecvAttempt(r))

\* C4's case: after a network error was reported to a coordinator and the
\* backoff went by, the task has just started a new attempt and listens.
C4_Witness ==
  /\ lastOp.op = "attempt"
  /\ lastOp.exc = NoExc
  /\ recvTasks[lastOp.id].pc = "listening"
  /\ \E m \in 1..Len(models) :
       Registered(m) /\ models[m].error = ErrorMessage(NetworkError)

\* C5: when the cancellation reaches the receive task while it is suspended
\* (on the draw of the next message or on the backoff sleep; a task that
\* never ran is covered too), the task terminates, no coordinator changes and
\* no signal is emitted.
C5_CancelIsSilent ==
  [][\A r \in 1..Len(recvTasks) :
       (lastOp'.op = "cancelled" /\ lastOp'.id = r)
       => /\ recvTasks'[r].pc = "done"
          /\ models' = models
          /\ emitted' = << >>]_vars

\* C5's case: the task was cancelled while suspended on the stream, with a
\* coordinator registered, and has terminated.
C5_Witness ==
  /\ lastOp.op = "cancelled"
  /\ lastOp.arg = "listening"
  /\ recvTasks[lastOp.id].pc = "done"
  /\ Len(_models) > 0

\* C7: for every strength and mask at the generate() call, the task that
\* runs with a connected connection selects the full generation for strength
\* 1 without mask, the refine request for a lower strength without mask, the
\* refine-region request for a lower strength with a mask, and for strength 1
\* with a mask fails with an internal assertion error, adding no job.
C7_ShapeFromStrengthAndMask ==
  [][\A t \in 1..Len(tasks) :
       ( /\ tasks[t].pc = "scheduled"
         /\ lastOp'.op = "_generate" /\ lastOp'.id = t
         /\ connState = "connected" )
       => LET s == tasks[t].called
              mask == tasks[t].mask
              m == tasks[t].model
          IN /\ (s = FullStrength /\ ~mask) =>
                  tasks'[t].pc = "awaiting" /\ tasks'[t].shape = "generate"
             /\ (s < FullStrength /\ ~mask) =>
                  tasks'[t].pc = "awaiting" /\ tasks'[t].shape = "refine"
             /\ (s < FullStrength /\ mask) =>
                  tasks'[t].pc = "awaiting" /\ tasks'[t].shape = "refine_region"
             /\ (s = FullStrength /\ mask) =>
                  /\ tasks'[t].pc = "failed"
                  /\ lastOp'.exc.type = "AssertionError"
                  /\ models'[m].error = ErrorMessage(lastOp'.exc)
                  /\ models'[m].jobs = models[m].jobs]_vars

\* C8: every exception raised inside the submission sequence (the failed
\* connection assertion, the unimplemented request, a network failure or an
\* interruption of the awaited submission) is caught at the task's boundary:
\* the task ends without passing it on, the coordinator's error becomes the
\* exception's message, whatever it was, "changed" is emitted, and no job is
\* added.
C8_SubmissionErrorsCaught ==
  [][\A t \in 1..Len(tasks) :
       (lastOp'.op = "_generate" /\ lastOp'.id = t /\ lastOp'.exc # NoExc)
       => LET m == tasks[t].model IN
          /\ tasks'[t].pc = "failed"
          /\ models'[m].error = ErrorMessage(lastOp'.exc)
          /\ models'[m].error # NoError
          /\ Emitted("changed", m)'
          /\ \A m2 \in 1..Len(models) : models'[m2].jobs = models[m2].jobs]_vars

\* C8's case: the awaited submission has just raised a network error while
\* another submission of the coordinator was acknowledged: the task failed
\* and the coordinator shows the network error.
C8_Witness ==
  /\ lastOp.op = "_generate"
  /\ lastOp.exc = NetworkError
  /\ tasks[lastOp.id].pc = "failed"
  /\ models[lastOp.model].error = ErrorMessage(NetworkError)
  /\ \E t \in 1..Len(tasks) : tasks[t].pc \in {"acked", "done"}

\* C11: in every reachable state no queue holds two jobs with the same id,
\* and every step leaves each queue's jobs in place: the ids of the queue
\* before the step are a prefix of the ids after it (jobs are appended, never
\* removed or reordered).
C11_UniqueIdsAppendOnly ==
  /\ [](\A m \in 1..Len(models) :
          \A i \in 1..Len(models[m].jobs) : \A j \in 1..Len(models[m].jobs) :
            i # j => models[m].jobs[i].id # models[m].jobs[j].id)
  /\ [][\A m \in 1..Len(models) :
          /\ Len(models'[m].jobs) >= Len(models[m].jobs)
          /\ \A j \in 1..Len(models[m].jobs) :
               models'[m].jobs[j].id = models[m].jobs[j].id]_vars

\* C11's case: a second acknowledged submission has just been appended to a
\* queue that already held a job.
C11_Witness ==
  /\ lastOp.op = "jobs_add"
  /\ Len(models[lastOp.model].jobs) > 1
  /\ models[lastOp.model].jobs[Len(models[lastOp.model].jobs)].id = lastOp.arg

\* C12: whenever the receive loop processes a message referencing job id X,
\* the job of X has already been appended to a queue: the submission task
\* that was acknowledged with X has resumed before the message is processed.
C12_AddBeforeMessage ==
  [][Delivers =>
       /\ \E m \in 1..Len(models) : find(models[m].jobs, Delivered.prompt_id) # 0
       /\ \A t \in 1..Len(tasks) :
            tasks[t].id = Delivered.prompt_id => tasks[t].pc = "done"]_vars

\* Two coordinators serving while documents are closed: the first coordinator
\* requests unmasked generations, they are acknowledged, the stream delivers
\* messages about them, documents are closed and the registry prunes their
\* coordinators at the next Model.active().
NextRouting ==
  \/ \E d \in Docs : CloseDocument(d)
  \/ Active
  \/ Generate(1, FALSE)
  \/ \E t \in 1..Len(tasks) : StartGenerate(t)
  \/ \E t \in 1..Len(tasks) : TransportAck(t)
  \/ \E t \in 1..Len(tasks) : ResumeGenerate(t)
  \/ \E r \in 1..Len(recvTasks), msg \in Messages : RecvMessage(r, msg)

SpecRouting == InitMessages /\ [][NextRouting]_vars

\* C13: when the receive loop draws a message whose id is in the queue of no
\* registered coordinator, the message is dropped: no coordinator changes
\* (queue, jobs, progress, error), registered or not, no signal is emitted,
\* no exception is raised, and the loop stays on the stream for the next
\* message.
C13_UnknownIdDropped ==
  [][(Delivers /\ \A m \in 1..Len(models) :
        Registered(m) => find(models[m].jobs, Delivered.prompt_id) = 0)
     => /\ models' = models
        /\ emitted' = << >>
        /\ lastOp'.exc = NoExc
        /\ recvTasks' = recvTasks
        /\ recvTasks'[lastOp'.id].pc = "listening"]_vars

\* C13's case: a finished message has just been dropped whose job sits,
\* still Queued, in the queue of a coordinator the registry has pruned, while
\* another coordinator is registered.
C13_Witness ==
  /\ lastOp.op = "message"
  /\ lastOp.model = 0
  /\ lastOp.arg.event = "finished"
  /\ \E m \in 1..Len(models) :
       /\ ~Registered(m)
       /\ find(models[m].jobs, lastOp.arg.prompt_id) # 0
       /\ models[m].jobs[find(models[m].jobs, lastOp.arg.prompt_id)].state = queued
  /\ \E m \in 1..Len(models) : Registered(m)

\* C14: every generate() call leaves the coordinator without error (with a
\* "changed" signal when there was one); and when the scheduled task runs with
\* the connection connected, before it selects and submits the request, it
\* resets progress to 0 and emits "changed" if no job of the coordinator is
\* Executing, and leaves progress as it was if one is.
C14_ClearsErrorResetsProgress ==
  [][/\ \A m \in 1..Len(models) :
          (lastOp'.op = "generate" /\ lastOp'.model = m)
          => /\ models'[m].error = NoError
             /\ models[m].error # NoError => Emitted("changed", m)'
             /\ models'[m].progress = models[m].progress
     /\ \A t \in 1..Len(tasks) :
          ( /\ tasks[t].pc = "scheduled"
            /\ lastOp'.op = "_generate" /\ lastOp'.id = t
            /\ connState = "connected" )
          => LET m == tasks[t].model IN
             IF any_executing(models[m].jobs)
             THEN models'[m].progress = models[m].progress
             ELSE models'[m].progress = NoProgress /\ Emitted("changed", m)']_vars

\* C14's case: a task has just selected its request while another job of the
\* coordinator was Executing, and the progress reported for that job stands.
C14_Witness ==
  /\ lastOp.op = "_generate"
  /\ lastOp.exc = NoExc
  /\ tasks[lastOp.id].pc = "awaiting"
  /\ any_executing(models[lastOp.model].jobs)
  /\ models[lastOp.model].progress \in ProgressValues

\* C15: when two generate() calls on one coordinator have both been
\* acknowledged and appended, the job of the earlier call precedes the job of
\* the later call in the queue, whatever order the submissions completed in.
C15_QueueInCallOrder ==
  \A t1 \in 1..Len(tasks) : \A t2 \in 1..Len(tasks) :
    ( /\ t1 < t2
      /\ tasks[t1].model = tasks[t2].model
      /\ tasks[t1].pc = "done" /\ tasks[t2].pc = "done" )
    => find(models[tasks[t1].model].jobs, tasks[t1].id)
         < find(models[tasks[t2].model].jobs, tasks[t2].id)

\* C16: the task of a generate() call that runs with the connection
\* connected selects the request, or fails, as the strength and the mask at
\* the moment of the call decide, whatever the strength has become since:
\* the shape is the one SelectRequest gives for the strength at the call, and
\* the task raises only if that selection does.
C16_ShapeAsAtTheCall ==
  [][\A t \in 1..Len(tasks) :
       ( /\ tasks[t].pc = "scheduled"
         /\ lastOp'.op = "_generate" /\ lastOp'.id = t
         /\ connState = "connected" )
       => LET atCall == SelectRequest(tasks[t].image, tasks[t].mask,
                                      tasks[t].called)
          IN /\ tasks'[t].shape = atCall.shape
             /\ lastOp'.exc = atCall.exc]_vars

RegisteredFor(d) == {i \in 1..Len(_models) : models[_models[i]].doc = d}
RegisteredAfterFor(d) == {i \in 1..Len(_models') : models'[_models'[i]].doc = d}

\* C18: after every Model.active() call the registry holds no coordinator of
\* a document that is not open; when a document is active it holds exactly
\* one coordinator for it, the one returned, created in this call (with the
\* single signal "created") exactly when none was registered for the document
\* before; when no document is active, nothing is created and None is
\* returned. Coordinators of open documents stay registered, in order.
C18_ActiveResolves ==
  [][lastOp'.op = "active" =>
       /\ \A i \in 1..Len(_models') : docs[models'[_models'[i]].doc] = "open"
       /\ \A i \in 1..Len(Pruned) : _models'[i] = Pruned[i]
       /\ IF activeDoc # 0
          THEN /\ Cardinality(RegisteredAfterFor(activeDoc)) = 1
               /\ \E i \in RegisteredAfterFor(activeDoc) : _models'[i] = lastOp'.model
               /\ IF RegisteredFor(activeDoc) = {}
                  THEN /\ models' = Append(models, NewModel(activeDoc))
                       /\ lastOp'.model = Len(models) + 1
                       /\ emitted' = <<Signal("created", lastOp'.model)>>
                  ELSE /\ models' = models
                       /\ emitted' = << >>
                       /\ \E i \in RegisteredFor(activeDoc) : _models[i] = lastOp'.model
          ELSE /\ models' = models
               /\ emitted' = << >>
               /\ lastOp'.model = 0
               /\ _models' = Pruned]_vars

\* C18's case: Model.active() has just pruned the coordinator of a closed
\* document and created the coordinator of the active one.
C18_Witness ==
  /\ lastOp.op = "active"
  /\ lastOp.arg = "created"
  /\ activeDoc # 0
  /\ Len(models) > Len(_models)
  /\ _models[Len(_models)] = lastOp.model
  /\ emitted = <<Signal("created", lastOp.model)>>

\* Two coordinators serving, with the scheduling of the event loop: unmasked
\* generations are requested and acknowledged, the stream delivers the
\* finished messages of the acknowledged ids, and a submission task that is
\* ready to run (scheduled, or resumed by the transport's answer) is run. The
\* transport and the stream are under no obligation.
NextDelivery ==
  \/ \E m \in 1..Len(models) : Generate(m, FALSE)
  \/ \E t \in 1..Len(tasks) : StartGenerate(t)
  \/ \E t \in 1..Len(tasks) : TransportAck(t)
  \/ \E t \in 1..Len(tasks) : ResumeGenerate(t)
  \/ \E r \in 1..Len(recvTasks), id \in issued, images \in ImageLists :
       RecvMessage(r, FinishedMessage(id, images))

SpecDelivery ==
  /\ InitMessages
  /\ [][NextDelivery]_vars
  /\ WF_vars(\E t \in 1..Len(tasks) : StartGenerate(t))
  /\ WF_vars(\E t \in 1..Len(tasks) : ResumeGenerate(t))

\* The receive loop has just processed the finished message with these images
\* for id, which the transport acknowledged to a submission of a registered
\* coordinator.
FinishedDelivered(id, images) ==
  /\ lastOp.op = "message"
  /\ lastOp.arg = FinishedMessage(id, images)
  /\ \E t \in 1..Len(tasks) :
       /\ tasks[t].id = id
       /\ tasks[t].pc \in {"acked", "done"}
       /\ Registered(tasks[t].model)

\* A registered coordinator holds the job of id, Finished with these images.
FinishedWith(id, images) ==
  \E m \in 1..Len(models) :
    /\ Registered(m)
    /\ find(models[m].jobs, id) # 0
    /\ models[m].jobs[find(models[m].jobs, id)].state = finished
    /\ models[m].jobs[find(models[m].jobs, id)].results = images

\* C19: once the receive loop has processed a finished message for an
\* acknowledged id, the job of that id eventually is Finished with the
\* message's images, whether the submission task had resumed before the
\* message or resumes after it.
C19_FinishedEventuallyApplied ==
  \A id \in JobIds : \A images \in ImageLists :
    FinishedDelivered(id, images) ~> FinishedWith(id, images)

\* C20: in every reachable state where the registry exists (created, not
\* destroyed) and the connection is connected, the registry holds a receive
\* task it has started, also when the registry was created by the first
\* Model.active() after the connection was established.
C20_ConnectedRegistryHasTask ==
  (instance /\ ~destroyed /\ connState = "connected")
  => _task # 0

====
